---- MODULE Spec2Model ----
(***************************************************************************)
(* Model of the rust-av extensibility core:                                *)
(*   codec/src/encoder.rs        Encoder trait, Context, Codecs registry   *)
(*                               and the dummy reference encoder           *)
(*   format/src/demuxer/demux.rs Score thresholds and probe()              *)
(***************************************************************************)
EXTENDS Integers, Sequences, FiniteSets, TLC

VARIABLES
    list,       \* Codecs.list : family name -> Vec of descriptors
    appended,   \* history: every descriptor passed to Codecs::append, in call order
    slots,      \* the caller's handles: each holds nothing, a Context or a Box<Encoder>
    last,       \* the last call made, its arguments and what it returned
    panicked,   \* TRUE once a call has hit unimplemented!()
    demuxers,   \* probe(): the builder slice
    data,       \* probe(): the byte sample
    idx,        \* probe(): position of the for loop in demuxers
    max,        \* probe(): local `max`
    candidate,  \* probe(): local `candidate`
    result,     \* probe(): the returned Option
    ppc         \* probe(): "idle", "loop", "done", or "panic" when a builder panicked

regVars   == <<list, appended>>
encVars   == <<slots, panicked>>
probeVars == <<demuxers, data, idx, max, candidate, result, ppc>>
vars      == <<list, appended, slots, last, panicked,
               demuxers, data, idx, max, candidate, result, ppc>>

\* Option<T>: None is the empty sequence, Some(x) the one-element sequence.
None    == <<>>
Some(x) == <<x>>

(***************************************************************************)
(* Bounds of the model                                                     *)
(***************************************************************************)
MaxAppend   == 3    \* Codecs::append calls in the registry specification
MaxRegs     == 2    \* Codecs::append calls in the Context specification
MaxSend     == 1    \* send_frame calls per Context in the Context specification
FrameCap    == 257  \* send_frame calls on the directly driven encoder
MaxBuilders == 3    \* length of the builder slice given to probe()

(***************************************************************************)
(* encoder.rs: descriptors and the Codecs registry                         *)
(***************************************************************************)
\* test::dummy::DUMMY_DESCR
DUMMY_DESCR == [codec |-> "dummy", name |-> "dummy",
                desc |-> "Dummy encoder", mime |-> "x-application/dummy"]
\* Two further Des values: a second implementation of the same family, and
\* an implementation of another family.
DUMMY2_DESCR == [codec |-> "dummy", name |-> "dummy2",
                 desc |-> "Second dummy encoder", mime |-> "x-application/dummy"]
OTHER_DESCR  == [codec |-> "other", name |-> "other",
                 desc |-> "Other encoder", mime |-> "x-application/other"]

Descrs      == {DUMMY_DESCR, DUMMY2_DESCR, OTHER_DESCR}
DummyDescrs == {DUMMY_DESCR, DUMMY2_DESCR}
Names       == {"dummy", "other", "absent"}

\* Descriptor::describe
Describe(d) == d

\* Codecs::new
CodecsNew == [f \in {} |-> <<>>]

\* Codecs::by_name with descs[len-1] in place of descs[0]
CodecsByNameLast(l, name) ==
    IF name \in DOMAIN l THEN Some(l[name][Len(l[name])]) ELSE None

\* Codecs::by_name
CodecsByName(l, name) ==
    IF name \in DOMAIN l THEN Some(l[name][1]) ELSE None

\* Codecs::append that skips a descriptor already present in its family
CodecsAppendDedup(l, d) ==
    LET codec_name == Describe(d).codec
        entry == [f \in DOMAIN l \cup {codec_name} |->
                     IF f \in DOMAIN l THEN l[f] ELSE <<>>]
    IN  IF \E k \in 1..Len(entry[codec_name]) : entry[codec_name][k] = d
        THEN entry
        ELSE [entry EXCEPT ![codec_name] = Append(@, d)]

\* Codecs::append: entry(codec_name).or_insert(Vec::new()).push(desc)
CodecsAppend(l, d) ==
    LET codec_name == Describe(d).codec
        entry == [f \in DOMAIN l \cup {codec_name} |->
                     IF f \in DOMAIN l THEN l[f] ELSE <<>>]
    IN  [entry EXCEPT ![codec_name] = Append(@, d)]

\* The record kept of the last call.
Call(op, target, key, val, res, ret, calls) ==
    [op |-> op, target |-> target, key |-> key, val |-> val,
     result |-> res, ret |-> ret, calls |-> calls]
NoCall == Call("none", "", "", None, "", None, <<>>)

\* A caller appends descriptor d to the registry (at most cap calls).
AppendCall(d, cap) ==
    /\ ~panicked
    /\ Len(appended) < cap
    /\ list' = CodecsAppend(list, d)
    /\ appended' = Append(appended, d)
    /\ last' = Call("append", "", Describe(d).codec, Some(d), "", None, <<>>)
    /\ UNCHANGED <<encVars, probeVars>>

\* A caller looks a family up in the registry.
LookupCall(name) ==
    /\ ~panicked
    /\ last' = Call("Codecs::by_name", "", name, None, "",
                    CodecsByName(list, name), <<>>)
    /\ UNCHANGED <<regVars, encVars, probeVars>>

(***************************************************************************)
(* demux.rs: Score thresholds, u8 range                                    *)
(***************************************************************************)
EXTENSION == 50
MIME      == 75
MAX       == 100
U8Max     == 255
U8Min     == 0      \* u8::min_value()

(***************************************************************************)
(* encoder.rs: the dummy reference encoder (test::dummy::Enc)              *)
(***************************************************************************)
\* data::value::Value, the two variants the dummy encoder matches on
U64(v)      == [kind |-> "U64", v |-> v]
Formaton(f) == [kind |-> "Formaton", v |-> f]

\* What an Encoder method hands back: the encoder after the call, the
\* outcome ("Ok", "Some", or "panic" for unimplemented!()) and the payload.
Ret(e, res, ret) == [enc |-> e, res |-> res, ret |-> ret]

\* a saturating cast in place of `as u8`
AsU8Saturating(n) == IF n > U8Max THEN U8Max ELSE n

\* `self.state as u8`: the low 8 bits
AsU8(n) == n % (U8Max + 1)

\* Des::create
DesCreate(d) == [state |-> 0, w |-> None, h |-> None, format |-> None]

\* Enc::validate
EncValidate(e) ==
    IF e.h # None /\ e.w # None /\ e.format # None
    THEN Ret(e, "Ok", None)
    ELSE Ret(e, "panic", None)

\* Enc::get_extradata
EncGetExtradata(e) == Ret(e, "Some", <<AsU8(e.state)>>)

\* Enc::send_frame; `state += 1` cannot overflow usize below FrameCap
EncSendFrame(e) == Ret([e EXCEPT !.state = @ + 1], "Ok", None)

\* Enc::receive_packet
EncReceivePacket(e) == Ret(e, "Ok", <<AsU8(e.state)>>)

\* Enc::set_option; `v as usize` keeps every value used here
EncSetOption(e, key, val) ==
    CASE key = "w" /\ val.kind = "U64"           -> Ret([e EXCEPT !.w = Some(val.v)], "Ok", None)
      [] key = "h" /\ val.kind = "U64"           -> Ret([e EXCEPT !.h = Some(val.v)], "Ok", None)
      [] key = "format" /\ val.kind = "Formaton" -> Ret([e EXCEPT !.format = Some(val.v)], "Ok", None)
      [] OTHER                                   -> Ret(e, "panic", None)

(***************************************************************************)
(* encoder.rs: trait Encoder and impl Context                              *)
(***************************************************************************)
\* The methods of trait Encoder, and the methods of Context that take self.
EncoderMethods == {"get_extradata", "send_frame", "receive_packet",
                   "validate", "set_option"}
ContextMethods == {"set_option", "get_extradata", "send_frame", "receive_packet"}

\* One invocation of an Encoder method by a Context method.
Invoke(op, key, val) == [op |-> op, key |-> key, val |-> val]

\* Context::by_name that takes the builder registered last
ContextByNameLast(codecs, name) ==
    LET builder == CodecsByNameLast(codecs, name)
    IN  IF builder # None
        THEN Some([enc |-> DesCreate(builder[1]), by |-> builder[1]])
        ELSE None

\* Context::by_name; `by` remembers the builder whose create() was called
ContextByName(codecs, name) ==
    LET builder == CodecsByName(codecs, name)
    IN  IF builder # None
        THEN Some([enc |-> DesCreate(builder[1]), by |-> builder[1]])
        ELSE None

\* Context::set_option
ContextSetOption(e, key, val) ==
    [r |-> EncSetOption(e, key, val), calls |-> <<Invoke("set_option", key, Some(val))>>]

\* Context::get_extradata
ContextGetExtradata(e) ==
    [r |-> EncGetExtradata(e), calls |-> <<Invoke("get_extradata", "", None)>>]

\* Context::send_frame
ContextSendFrame(e) ==
    [r |-> EncSendFrame(e), calls |-> <<Invoke("send_frame", "", None)>>]

\* Context::receive_packet
ContextReceivePacket(e) ==
    [r |-> EncReceivePacket(e), calls |-> <<Invoke("receive_packet", "", None)>>]

(***************************************************************************)
(* The caller: handles holding a Context or a Box<Encoder>                 *)
(***************************************************************************)
Handles       == {"a", "b"}
DirectHandles == {"a"}

OptionInputs ==
    { <<"w", U64(640)>>, <<"w", U64(480)>>, <<"h", U64(480)>>,
      <<"format", Formaton(1)>>, <<"w", Formaton(1)>>, <<"bogus", U64(640)>> }

\* A handle's content: the owned encoder, how it is held, and the history
\* of the instance (its builder, whether validate() has succeeded, how many
\* send_frame calls have returned).
Held(via, e, by) ==
    Some([via |-> via, enc |-> e, by |-> by, validated |-> FALSE, sent |-> 0])

Holds(c, via) == slots[c] # None /\ slots[c][1].via = via

\* The effect on handle c of a method call that returned r.
Returned(c, op, key, val, r, calls) ==
    /\ slots' = [slots EXCEPT ![c] = Some([@[1] EXCEPT
                    !.enc = r.enc,
                    !.validated = @ \/ (op = "validate" /\ r.res = "Ok"),
                    !.sent = IF op = "send_frame" /\ r.res = "Ok" THEN @ + 1 ELSE @])]
    /\ panicked' = (r.res = "panic")
    /\ last' = Call(op, c, key, val, r.res, r.ret, calls)
    /\ UNCHANGED <<regVars, probeVars>>

\* let c = Context::by_name(&codecs, name)
CtxByName(c, name) ==
    /\ ~panicked
    /\ LET ctx == ContextByName(list, name)
       IN  /\ slots' = [slots EXCEPT ![c] =
                  IF ctx = None THEN None ELSE Held("ctx", ctx[1].enc, ctx[1].by)]
           /\ last' = Call("Context::by_name", c, name, None,
                           IF ctx = None THEN "None" ELSE "Some", None, <<>>)
    /\ UNCHANGED <<regVars, panicked, probeVars>>

\* c.set_option(key, val) on a Context
CtxSetOption(c, key, val) ==
    /\ ~panicked /\ Holds(c, "ctx")
    /\ LET x == ContextSetOption(slots[c][1].enc, key, val)
       IN  Returned(c, "set_option", key, Some(val), x.r, x.calls)

\* c.get_extradata() on a Context
CtxGetExtradata(c) ==
    /\ ~panicked /\ Holds(c, "ctx")
    /\ LET x == ContextGetExtradata(slots[c][1].enc)
       IN  Returned(c, "get_extradata", "", None, x.r, x.calls)

\* c.send_frame(&frame) on a Context
CtxSendFrame(c) ==
    /\ ~panicked /\ Holds(c, "ctx")
    /\ slots[c][1].enc.state < MaxSend
    /\ LET x == ContextSendFrame(slots[c][1].enc)
       IN  Returned(c, "send_frame", "", None, x.r, x.calls)

\* c.receive_packet() on a Context
CtxReceivePacket(c) ==
    /\ ~panicked /\ Holds(c, "ctx")
    /\ LET x == ContextReceivePacket(slots[c][1].enc)
       IN  Returned(c, "receive_packet", "", None, x.r, x.calls)

\* let c = codecs.by_name(name).map(|d| d.create())
DirectCreate(c, name) ==
    /\ ~panicked
    /\ LET builder == CodecsByName(list, name)
       IN  /\ slots' = [slots EXCEPT ![c] =
                  IF builder = None THEN None
                  ELSE Held("enc", DesCreate(builder[1]), builder[1])]
           /\ last' = Call("create", c, name, None,
                           IF builder = None THEN "None" ELSE "Some", None, <<>>)
    /\ UNCHANGED <<regVars, panicked, probeVars>>

\* Encoder::set_option on a Box<Encoder>
DirectSetOption(c, key, val) ==
    /\ ~panicked /\ Holds(c, "enc")
    /\ Returned(c, "set_option", key, Some(val),
                EncSetOption(slots[c][1].enc, key, val), <<>>)

\* Encoder::validate on a Box<Encoder>
DirectValidate(c) ==
    /\ ~panicked /\ Holds(c, "enc")
    /\ Returned(c, "validate", "", None, EncValidate(slots[c][1].enc), <<>>)

\* Encoder::get_extradata on a Box<Encoder>
DirectGetExtradata(c) ==
    /\ ~panicked /\ Holds(c, "enc")
    /\ Returned(c, "get_extradata", "", None, EncGetExtradata(slots[c][1].enc), <<>>)

\* Encoder::send_frame on a Box<Encoder>
DirectSendFrame(c) ==
    /\ ~panicked /\ Holds(c, "enc")
    /\ slots[c][1].enc.state < FrameCap
    /\ Returned(c, "send_frame", "", None, EncSendFrame(slots[c][1].enc), <<>>)

\* Encoder::receive_packet on a Box<Encoder>
DirectReceivePacket(c) ==
    /\ ~panicked /\ Holds(c, "enc")
    /\ Returned(c, "receive_packet", "", None, EncReceivePacket(slots[c][1].enc), <<>>)

(***************************************************************************)
(* demux.rs: probe()                                                       *)
(***************************************************************************)
Scores  == {U8Min, EXTENSION, EXTENSION + 1, MIME, MAX, U8Max}
Samples == {<<>>, <<0>>, <<1>>, <<1, 0>>}

\* The builders that may stand at position i of the slice: the test module's
\* TestDemuxerBuilder, or a builder whose probe answers a fixed score.
BuildersAt(i) ==
    {[id |-> i, kind |-> "Test", score |-> U8Min]}
        \cup {[id |-> i, kind |-> "Fixed", score |-> s] : s \in Scores}

BuilderLists ==
    UNION {{l \in [1..n -> UNION {BuildersAt(i) : i \in 1..n}] :
                \A i \in 1..n : l[i] \in BuildersAt(i)} : n \in 0..MaxBuilders}

\* The test builder indexes data[0]: an empty sample makes it panic.
BuilderPanics(b, d) == b.kind = "Test" /\ Len(d) = 0

\* DemuxerBuilder::probe; for the test builder: data[0] == 0 gives Score::MAX
BuilderProbe(b, d) ==
    IF b.kind = "Test" THEN (IF d[1] = 0 THEN MAX ELSE U8Min) ELSE b.score

\* the loop body with `score >= max`
ProbeIterGe ==
    /\ ppc = "loop"
    /\ idx <= Len(demuxers)
    /\ LET builder == demuxers[idx]
           score == BuilderProbe(builder, data)
       IN  IF BuilderPanics(builder, data)
           THEN ppc' = "panic" /\ UNCHANGED <<max, candidate, idx>>
           ELSE /\ IF score >= max
                   THEN max' = score /\ candidate' = Some(builder)
                   ELSE UNCHANGED <<max, candidate>>
                /\ idx' = idx + 1
                /\ ppc' = ppc
    /\ UNCHANGED <<demuxers, data, result, regVars, encVars, last>>

\* probe(): one iteration of `for builder in demuxers`
ProbeIter ==
    /\ ppc = "loop"
    /\ idx <= Len(demuxers)
    /\ LET builder == demuxers[idx]
           score == BuilderProbe(builder, data)
       IN  IF BuilderPanics(builder, data)
           THEN ppc' = "panic" /\ UNCHANGED <<max, candidate, idx>>
           ELSE /\ IF score > max
                   THEN max' = score /\ candidate' = Some(builder)
                   ELSE UNCHANGED <<max, candidate>>
                /\ idx' = idx + 1
                /\ ppc' = ppc
    /\ UNCHANGED <<demuxers, data, result, regVars, encVars, last>>

\* the final test with `max >= Score::EXTENSION`
ProbeReturnGe ==
    /\ ppc = "loop"
    /\ idx > Len(demuxers)
    /\ result' = IF max >= EXTENSION THEN candidate ELSE None
    /\ ppc' = "done"
    /\ UNCHANGED <<demuxers, data, idx, max, candidate, regVars, encVars, last>>

\* probe(): the test after the loop and the return
ProbeReturn ==
    /\ ppc = "loop"
    /\ idx > Len(demuxers)
    /\ result' = IF max > EXTENSION THEN candidate ELSE None
    /\ ppc' = "done"
    /\ UNCHANGED <<demuxers, data, idx, max, candidate, regVars, encVars, last>>

(***************************************************************************)
(* Specifications                                                          *)
(***************************************************************************)
InitReg ==
    /\ list = CodecsNew
    /\ appended = <<>>

InitEnc ==
    /\ slots = [c \in Handles |-> None]
    /\ panicked = FALSE

InitProbeIdle ==
    /\ demuxers = <<>> /\ data = <<0>> /\ idx = 1 /\ max = U8Min
    /\ candidate = None /\ result = None /\ ppc = "idle"

\* The registry alone: appends and lookups.
InitRegistry == InitReg /\ InitEnc /\ InitProbeIdle /\ last = NoCall
NextRegistry ==
    \/ \E d \in Descrs : AppendCall(d, MaxAppend)
    \/ \E name \in Names : LookupCall(name)
SpecRegistry == InitRegistry /\ [][NextRegistry]_vars

\* probe() on every builder slice and sample of the bounds.
InitProbe ==
    /\ InitReg /\ InitEnc /\ last = NoCall
    /\ demuxers \in BuilderLists
    /\ data \in Samples
    /\ idx = 1
    /\ max = U8Min
    /\ candidate = None
    /\ result = None
    /\ ppc = "loop"
NextProbe == ProbeIter \/ ProbeReturn
SpecProbe == InitProbe /\ [][NextProbe]_vars

\* Contexts obtained through Context::by_name and driven through Context.
Init == InitReg /\ InitEnc /\ InitProbeIdle /\ last = NoCall
Next ==
    \/ \E d \in DummyDescrs : AppendCall(d, MaxRegs)
    \/ \E c \in Handles, name \in {"dummy", "other"} : CtxByName(c, name)
    \/ \E c \in Handles, kv \in OptionInputs : CtxSetOption(c, kv[1], kv[2])
    \/ \E c \in Handles : CtxGetExtradata(c)
    \/ \E c \in Handles : CtxSendFrame(c)
    \/ \E c \in Handles : CtxReceivePacket(c)
Spec == Init /\ [][Next]_vars

\* One encoder created by its builder and driven through trait Encoder.
NextEnc ==
    \/ \E d \in {DUMMY_DESCR} : AppendCall(d, MaxRegs)
    \/ \E c \in DirectHandles, name \in {"dummy", "absent"} : DirectCreate(c, name)
    \/ \E c \in DirectHandles, kv \in OptionInputs : DirectSetOption(c, kv[1], kv[2])
    \/ \E c \in DirectHandles : DirectValidate(c)
    \/ \E c \in DirectHandles : DirectGetExtradata(c)
    \/ \E c \in DirectHandles : DirectSendFrame(c)
    \/ \E c \in DirectHandles : DirectReceivePacket(c)
SpecEnc == Init /\ [][NextEnc]_vars

(***************************************************************************)
(* Properties                                                              *)
(***************************************************************************)
\* The descriptors appended so far under family f, in call order.
OfFamily(f) ==
    LET InFamily(d) == d.codec = f IN SelectSeq(appended, InFamily)

FirstAppended(f) ==
    IF OfFamily(f) = <<>> THEN None ELSE Some(OfFamily(f)[1])

\* C1: after any sequence of append calls, by_name(f) is the descriptor that
\* was appended first under f, and None when nothing was appended under f;
\* a lookup just made returned exactly that.
C1_ByNameFirstAppended ==
    /\ \A f \in Names : CodecsByName(list, f) = FirstAppended(f)
    /\ last.op = "Codecs::by_name" => last.ret = FirstAppended(last.key)

\* a lookup has returned the first of two different descriptors of a family
C1_Witness ==
    /\ last.op = "Codecs::by_name"
    /\ last.key \in DOMAIN list
    /\ Len(list[last.key]) >= 2
    /\ list[last.key][1] # list[last.key][Len(list[last.key])]
    /\ last.ret = Some(list[last.key][1])

\* The registry holds, per family, exactly the appended descriptors of that
\* family in call order.
RegistryShape ==
    /\ DOMAIN list = {appended[k].codec : k \in 1..Len(appended)}
    /\ \A f \in DOMAIN list :
          /\ list[f] # <<>>
          /\ 1 \in DOMAIN list[f]
          /\ Len(list[f]) = Cardinality({k \in 1..Len(appended) : appended[k].codec = f})
          /\ list[f] = OfFamily(f)

\* C10: every family present maps to a non-empty sequence holding the
\* descriptors appended under it, as many as were appended and in call order
\* (duplicates kept), so index 0 is always in range; and a step changes no
\* sequence but that of the family of the descriptor it appends.
C10_RegistrySequences ==
    /\ RegistryShape
    /\ [][ /\ RegistryShape'
           /\ \A f \in DOMAIN list :
                 /\ f \in DOMAIN list'
                 /\ (last'.op = "append" /\ last'.key = f) \/ list'[f] = list[f]
         ]_vars

\* a family holds the same descriptor twice while another family is present
C10_Witness ==
    \E f \in DOMAIN list, g \in DOMAIN list :
        /\ f # g
        /\ Len(list[f]) >= 2
        /\ list[f][1] = list[f][2]

\* The score of the builder at position k of the slice on the sample.
ScoreAt(k) == BuilderProbe(demuxers[k], data)

C3_ProbeEarliestMaximum ==
    (ppc = "done" /\ \E k \in 1..Len(demuxers) : ScoreAt(k) > 50) =>
        \E m \in 1..Len(demuxers) :
            /\ \A k \in 1..Len(demuxers) : ScoreAt(k) <= ScoreAt(m)
            /\ \A k \in 1..(m - 1) : ScoreAt(k) < ScoreAt(m)
            /\ result = Some(demuxers[m])

\* probe has chosen the earlier of two builders sharing the highest score
C3_Witness ==
    /\ ppc = "done"
    /\ \E m \in 1..Len(demuxers), n \in 1..Len(demuxers) :
          /\ m < n
          /\ ScoreAt(m) = ScoreAt(n)
          /\ ScoreAt(m) > 50
          /\ \A k \in 1..Len(demuxers) : ScoreAt(k) <= ScoreAt(m)
          /\ result = Some(demuxers[m])

\* C4: on a Context whose encoder has not been validated, send_frame and
\* receive_packet fail with NotReady or a configuration error and leave the
\* counter at 0.
C4_ValidateGating ==
    \A c \in Handles :
        (/\ last.target = c
         /\ last.op \in {"send_frame", "receive_packet"}
         /\ Holds(c, "ctx")
         /\ ~slots[c][1].validated)
        => /\ last.result \in {"NotReady", "NotConfigured"}
           /\ slots[c][1].enc.state = 0

\* A Context method invoked the same Encoder method once with its arguments.
ForwardedOnce ==
    (last.op \in ContextMethods /\ last.target \in Handles /\ Holds(last.target, "ctx"))
        => last.calls = <<Invoke(last.op, last.key, last.val)>>

\* C5: Context exposes each of the five Encoder operations, and each Context
\* operation invokes that operation of the owned encoder exactly once with the
\* same arguments.
C5_ContextForwardsAll ==
    /\ \A m \in {"set_option", "validate", "send_frame", "receive_packet",
                 "get_extradata"} : m \in ContextMethods
    /\ ForwardedOnce

\* C6: Context::by_name gives None for a family with no descriptor, and
\* otherwise a Context on an encoder in its initial state made by the first
\* descriptor appended under the family; no call changes a handle other than
\* the one it is made on.
C6_ByNameFreshIndependent ==
    [][ /\ last'.op = "Context::by_name" =>
              LET c == last'.target
                  f == last'.key
              IN  IF FirstAppended(f) = None
                  THEN last'.result = "None" /\ slots'[c] = None
                  ELSE /\ last'.result = "Some"
                       /\ slots'[c] # None
                       /\ slots'[c][1].via = "ctx"
                       /\ slots'[c][1].by = FirstAppended(f)[1]
                       /\ slots'[c][1].enc =
                             [state |-> 0, w |-> None, h |-> None, format |-> None]
        /\ \A g \in Handles : g # last'.target => slots'[g] = slots[g]
      ]_vars

\* by_name has made a fresh Context from the first of two descriptors while
\* the other handle holds a Context that was configured and fed a frame
C6_Witness ==
    /\ last.op = "Context::by_name"
    /\ last.result = "Some"
    /\ Len(list[last.key]) >= 2
    /\ list[last.key][1] # list[last.key][2]
    /\ slots[last.target][1].enc.state = 0
    /\ \E g \in Handles :
          /\ g # last.target
          /\ Holds(g, "ctx")
          /\ slots[g][1].enc.state >= 1
          /\ slots[g][1].enc.w # None

\* C7: validate returns Ok exactly when w, h and format are all set, and
\* otherwise returns NotConfigured without aborting.
C7_ValidateResult ==
    last.op = "validate" =>
        LET e == slots[last.target][1].enc
            complete == e.w # None /\ e.h # None /\ e.format # None
        IN  /\ last.result = "Ok" <=> complete
            /\ ~complete => last.result = "NotConfigured"
            /\ ~panicked

\* C8: set_option returns UnsupportedOption for a key the encoder does not
\* know, InvalidValue for a known key with a value of the wrong kind, and
\* otherwise Ok with the value stored under the key; it always returns.
C8_SetOptionResult ==
    last.op = "set_option" =>
        LET e == slots[last.target][1].enc
            key == last.key
            val == last.val[1]
            known == key \in {"w", "h", "format"}
            fits == \/ key \in {"w", "h"} /\ val.kind = "U64"
                    \/ key = "format" /\ val.kind = "Formaton"
            stored == CASE key = "w" -> e.w [] key = "h" -> e.h [] OTHER -> e.format
        IN  /\ ~panicked
            /\ ~known => last.result = "UnsupportedOption"
            /\ (known /\ ~fits) => last.result = "InvalidValue"
            /\ fits => (last.result = "Ok" /\ stored = Some(val.v))

\* C9: a dummy encoder that was validated and has taken n >= 1 frames has
\* state = n, and receive_packet and get_extradata return the one byte
\* n mod 256 and leave state at n.
C9_RoundTrip ==
    \A c \in Handles :
        (/\ Holds(c, "enc")
         /\ slots[c][1].by = DUMMY_DESCR
         /\ slots[c][1].validated
         /\ slots[c][1].sent >= 1)
        => /\ slots[c][1].enc.state = slots[c][1].sent
           /\ (last.target = c /\ last.op \in {"receive_packet", "get_extradata"})
                 => /\ last.ret = <<slots[c][1].sent % 256>>
                    /\ last.result \in {"Ok", "Some"}

\* receive_packet has returned the byte 1 after 257 frames
C9_Witness ==
    /\ Holds("a", "enc")
    /\ slots["a"][1].validated
    /\ slots["a"][1].sent = 257
    /\ last.op = "receive_packet"
    /\ last.ret = <<1>>

====
